---- MODULE Spec2Model ----
(***************************************************************************)
(* Job lifecycle and execution tracking of the ShelbyCompute backend       *)
(* (provider-agent/main.py) and of the provider agent                      *)
(* (provider-agent/agent.py).                                              *)
(*                                                                         *)
(* The backend is a set of request handlers over one SQLite database.      *)
(* A handler whose SQL is one statement plus commit is one atomic action.  *)
(* finish_job and delete_node read with a SELECT outside any transaction   *)
(* and write afterwards, so each is two actions with the request in        *)
(* flight between them.  A handler is an operator over the tables; what it *)
(* returns to its caller is its last parameter.                             *)
(***************************************************************************)
EXTENDS Integers, Sequences, FiniteSets, TLC

\* ---------------------------------------------------------------- bounds
\* now_ts() values run over 1..MaxTime.
MaxTime == 2
\* Rows the provenance table may hold before finish is no longer issued.
MaxProv == 2
\* Rows the logs table may hold; further lines and samples are dropped.
MaxLogs == 1
\* Background tasks that may be queued before finish is no longer issued.
MaxTasks == 1

\* now_ts() values of the node list run over 1..MaxClock.
MaxClock == 601
MaxFiles == 3

\* ------------------------------------------------------------ value sets
\* SQL NULL / Python None of a TEXT column or of an object.
NULL == "NULL"
\* SQL NULL of an INTEGER timestamp column (now_ts() is never 0).
NoTs == 0
\* NULL of the result column; a stored result is <<[modelHash, meta]>>.
NoResult == << >>

\* Each agent process draws one NODE_ID; the agent is named by it.
Agents == {"n1", "n2"}
NodeIds == Agents
\* workspace/jobs/test-script-job/train.py ships with the agent.
JobIds == {"test-script-job", "j2"}
DatasetUrls == {NULL, "url"}
\* The place of a job id in the order of the TEXT values: "j2" sorts
\* before "test-script-job".
JobIdRank == [j \in JobIds |-> IF j = "j2" THEN 1 ELSE 2]

\* metadata of a finish report as handle_job builds it.
MetaDataset == "dataset"
MetaNoModel == "error:no_model"

NoJob == [jobId |-> NULL, datasetUrl |-> NULL]
NoReq == [nodeId |-> NULL, jobId |-> NULL, modelHash |-> NULL,
          modelSizeBytes |-> 0, metadata |-> NULL]

VARIABLES
    now,            \* the clock read by now_ts()
    nodes,          \* table nodes: node_id -> last_seen
    jobs,           \* table jobs: job_id -> row
    provenance,     \* table provenance, in insertion order
    logs,           \* table logs, in insertion order (AUTOINCREMENT id)
    job_scripts,    \* table job_scripts: the job ids that have a row
    bgTasks,        \* BackgroundTasks queued by finish_job, not yet run
    inflight,       \* the frontend/client request between its SELECT and its write
    deleting,       \* the node id of a DELETE /nodes request between its SELECT and its DELETE
    reply,          \* the response the frontend/client received last
    pc,             \* each agent's position in agent.py
    job,            \* handle_job's job dict
    ack_res,        \* handle_job's ack_res
    train_py,       \* whether JOB_WORKDIR/<job>/train.py exists, per agent
    image_tag,      \* handle_job's image_tag
    model_hash,     \* handle_job's model_hash
    model_size,     \* handle_job's model_size
    sent,           \* the payload of the finish report posted for the job
    usage_threads,  \* the live monitor_usage_while threads
    postjob         \* what the last run of process_post_job_actions did

store == <<nodes, jobs, provenance, logs, job_scripts, bgTasks>>
client == <<inflight, deleting, reply>>
agent == <<pc, job, ack_res, train_py, image_tag, model_hash, model_size, sent,
           usage_threads>>
vars == <<now, store, client, agent, postjob>>

\* ------------------------------------------------------------- the tables
Exists(jobId) == jobId \in DOMAIN jobs

Pending(jobId) == Exists(jobId) /\ jobs[jobId].status = "pending"

\* The rowid SQLite gives an INSERTed row of jobs (a rowid table without
\* AUTOINCREMENT): one more than the largest rowid the table holds.
NextRowid ==
    IF DOMAIN jobs = {} THEN 1
    ELSE 1 + CHOOSE r \in {jobs[j].rowid : j \in DOMAIN jobs} :
                 \A k \in DOMAIN jobs : jobs[k].rowid <= r

\* main.py create_job: the row INSERTed.
NewJobRow(jobId, datasetUrl) ==
    [rowid |-> NextRowid, status |-> "pending",
     payload |-> [jobId |-> jobId, datasetUrl |-> datasetUrl],
     created_at |-> now, assigned_node |-> NULL,
     started_at |-> NoTs, finished_at |-> NoTs, result |-> NoResult]

\* main.py finish_job: the provenance record.  Its place in the sequence
\* stands for its uuid and its created_at/ts; durationSeconds is left out.
ProvRecord(req) ==
    [jobId |-> req.jobId, nodeId |-> req.nodeId, modelHash |-> req.modelHash,
     modelSizeBytes |-> req.modelSizeBytes, metadata |-> req.metadata]

\* ------------------------------------------------------------- handlers
\* get_nodes_for_frontend: the thresholds, in seconds.
OnlineWindow == 30
WarningWindow == 300

\* A faulty node_status: the online test is "<=".
node_status_inclusive(current_time, last_seen) ==
    IF current_time - last_seen <= OnlineWindow THEN "online"
    ELSE IF current_time - last_seen < WarningWindow THEN "warning"
    ELSE "offline"

\* get_nodes_for_frontend: the status derived for one row.
node_status(current_time, last_seen) ==
    IF current_time - last_seen < OnlineWindow THEN "online"
    ELSE IF current_time - last_seen < WarningWindow THEN "warning"
    ELSE "offline"

\* get_nodes_for_frontend: node id -> status; it writes nothing.
get_nodes_for_frontend(out) ==
    /\ out = [n \in DOMAIN nodes |-> node_status(now, nodes[n])]
    /\ UNCHANGED store

register_node(nodeId, code) ==
    /\ nodes' = [n \in DOMAIN nodes \cup {nodeId} |->
                    IF n = nodeId THEN now ELSE nodes[n]]
    /\ code = 200
    /\ UNCHANGED <<jobs, provenance, logs, job_scripts, bgTasks>>

heartbeat(nodeId, code) ==
    /\ nodes' = [n \in DOMAIN nodes |-> IF n = nodeId THEN now ELSE nodes[n]]
    /\ code = 200
    /\ UNCHANGED <<jobs, provenance, logs, job_scripts, bgTasks>>

\* A faulty create_job: INSERT OR REPLACE INTO jobs.
create_job_replace(jobId, datasetUrl, code) ==
    /\ jobId # NULL
    /\ code = 200
    /\ jobs' = [j \in DOMAIN jobs \cup {jobId} |->
                   IF j = jobId THEN NewJobRow(jobId, datasetUrl) ELSE jobs[j]]
    /\ UNCHANGED <<nodes, provenance, logs, job_scripts, bgTasks>>

\* job_id is the PRIMARY KEY: the INSERT of an existing id raises, the
\* handler ends in a 500 and nothing is committed.  Without a jobId in the
\* request (NULL) the id is str(uuid.uuid4()): an id no job has, as far as
\* the model's ids go.
create_job(jobId, datasetUrl, code) ==
    /\ IF jobId = NULL
       THEN \E id \in JobIds \ DOMAIN jobs :
               /\ code = 200
               /\ jobs' = jobs @@ (id :> NewJobRow(id, datasetUrl))
       ELSE IF Exists(jobId)
       THEN code = 500 /\ jobs' = jobs
       ELSE code = 200 /\ jobs' = jobs @@ (jobId :> NewJobRow(jobId, datasetUrl))
    /\ UNCHANGED <<nodes, provenance, logs, job_scripts, bgTasks>>

\* A faulty OldestPending: ORDER BY created_at without the status filter.
OldestOfAll ==
    {j \in DOMAIN jobs : \A k \in DOMAIN jobs : jobs[j].created_at <= jobs[k].created_at}

\* A faulty OldestPending: any of the pending jobs of smallest created_at.
OldestPendingAnyTie ==
    {j \in DOMAIN jobs :
        /\ jobs[j].status = "pending"
        /\ \A k \in DOMAIN jobs :
              jobs[k].status = "pending" => jobs[j].created_at <= jobs[k].created_at}

\* SELECT ... WHERE status = 'pending' ORDER BY created_at LIMIT 1: jobs has
\* no index on created_at, so SQLite scans the table in rowid order and
\* sorts; among equal created_at the row with the smallest rowid comes.
OldestPending ==
    {j \in DOMAIN jobs :
        /\ jobs[j].status = "pending"
        /\ \A k \in DOMAIN jobs :
              jobs[k].status = "pending" =>
                 \/ jobs[j].created_at < jobs[k].created_at
                 \/ /\ jobs[j].created_at = jobs[k].created_at
                    /\ jobs[j].rowid <= jobs[k].rowid}

\* A faulty poll_for_job: jobs assigned to a node that is offline or gone are
\* handed back to pending before the answer.
poll_for_job_reclaim(nodeId, out) ==
    /\ IF OldestPending = {}
       THEN out = NoJob
       ELSE \E j \in OldestPending : out = jobs[j].payload
    /\ jobs' = [j \in DOMAIN jobs |->
                  IF /\ jobs[j].status = "assigned"
                     /\ \/ jobs[j].assigned_node \notin DOMAIN nodes
                        \/ now - nodes[jobs[j].assigned_node] >= 300
                  THEN [jobs[j] EXCEPT !.status = "pending",
                                       !.assigned_node = NULL,
                                       !.started_at = NoTs]
                  ELSE jobs[j]]
    /\ UNCHANGED <<nodes, provenance, logs, job_scripts, bgTasks>>

poll_for_job(nodeId, out) ==
    /\ IF OldestPending = {}
       THEN out = NoJob
       ELSE \E j \in OldestPending : out = jobs[j].payload
    /\ UNCHANGED store

\* Every job dict a poll can answer with.
JobDicts == {NoJob} \cup {jobs[j].payload : j \in DOMAIN jobs}

\* A faulty ack_job: UPDATE ... WHERE job_id = ?, without the status test.
ack_job_no_status(nodeId, jobId, code) ==
    /\ IF Exists(jobId)
       THEN /\ jobs' = [jobs EXCEPT ![jobId].status = "assigned",
                                    ![jobId].assigned_node = nodeId,
                                    ![jobId].started_at = now]
            /\ code = 200
       ELSE jobs' = jobs /\ code = 400
    /\ UNCHANGED <<nodes, provenance, logs, job_scripts, bgTasks>>

\* A faulty ack_job: ... WHERE job_id = ? AND status != 'finished'.
ack_job_not_finished(nodeId, jobId, code) ==
    /\ IF Exists(jobId) /\ jobs[jobId].status # "finished"
       THEN /\ jobs' = [jobs EXCEPT ![jobId].status = "assigned",
                                    ![jobId].assigned_node = nodeId,
                                    ![jobId].started_at = now]
            /\ code = 200
       ELSE jobs' = jobs /\ code = 400
    /\ UNCHANGED <<nodes, provenance, logs, job_scripts, bgTasks>>

ack_job(nodeId, jobId, code) ==
    /\ IF Pending(jobId)
       THEN /\ jobs' = [jobs EXCEPT ![jobId].status = "assigned",
                                    ![jobId].assigned_node = nodeId,
                                    ![jobId].started_at = now]
            /\ code = 200
       ELSE jobs' = jobs /\ code = 400
    /\ UNCHANGED <<nodes, provenance, logs, job_scripts, bgTasks>>

\* A faulty finish_job_select: the "if not row" test is gone.
finish_job_select_no_404(jobId, code) ==
    /\ code = 200
    /\ UNCHANGED store

\* JobAckIn.signature: none, the HMAC of the job id under the agent's
\* handshake key as sign_job_result computes it, or anything else.
Signatures == {NULL, "hmac", "wrong"}

\* A faulty ack_job_signed: acks without the agent's HMAC are turned down.
ack_job_verified(nodeId, jobId, signature, code) ==
    IF signature = "hmac"
    THEN ack_job(nodeId, jobId, code)
    ELSE code = 400 /\ UNCHANGED store

\* ack_job on the whole JobAckIn: payload.signature is never read.
ack_job_signed(nodeId, jobId, signature, code) ==
    ack_job(nodeId, jobId, code)

\* finish_job, first half: SELECT status FROM jobs WHERE job_id = ?
finish_job_select(jobId, code) ==
    /\ code = IF Exists(jobId) THEN 200 ELSE 404
    /\ UNCHANGED store

\* A faulty finish_job_commit: UPDATE ... WHERE job_id = ? AND assigned_node = ?.
finish_job_commit_owner(req) ==
    /\ jobs' = IF Exists(req.jobId) /\ jobs[req.jobId].assigned_node = req.nodeId
               THEN [jobs EXCEPT ![req.jobId].status = "finished",
                                 ![req.jobId].finished_at = now,
                                 ![req.jobId].result =
                                     <<[modelHash |-> req.modelHash,
                                        meta |-> req.metadata]>>]
               ELSE jobs
    /\ provenance' = Append(provenance, [jobId |-> req.jobId, nodeId |-> req.nodeId,
                                         modelHash |-> req.modelHash,
                                         modelSizeBytes |-> req.modelSizeBytes,
                                         metadata |-> req.metadata])
    /\ bgTasks' = Append(bgTasks, [jobId |-> req.jobId, nodeId |-> req.nodeId])
    /\ UNCHANGED <<nodes, logs, job_scripts>>

\* A faulty finish_job_commit: the INSERT INTO provenance is gone.
finish_job_commit_no_prov(req) ==
    /\ jobs' = IF Exists(req.jobId)
               THEN [jobs EXCEPT ![req.jobId].status = "finished",
                                 ![req.jobId].finished_at = now,
                                 ![req.jobId].result =
                                     <<[modelHash |-> req.modelHash,
                                        meta |-> req.metadata]>>]
               ELSE jobs
    /\ bgTasks' = Append(bgTasks, [jobId |-> req.jobId, nodeId |-> req.nodeId])
    /\ UNCHANGED <<nodes, provenance, logs, job_scripts>>

\* A faulty finish_job_commit: finished_at is the job's created_at.
finish_job_commit_stale(req) ==
    /\ jobs' = IF Exists(req.jobId)
               THEN [jobs EXCEPT ![req.jobId].status = "finished",
                                 ![req.jobId].finished_at = jobs[req.jobId].created_at,
                                 ![req.jobId].result =
                                     <<[modelHash |-> req.modelHash,
                                        meta |-> req.metadata]>>]
               ELSE jobs
    /\ provenance' = Append(provenance, [jobId |-> req.jobId, nodeId |-> req.nodeId,
                                         modelHash |-> req.modelHash,
                                         modelSizeBytes |-> req.modelSizeBytes,
                                         metadata |-> req.metadata])
    /\ bgTasks' = Append(bgTasks, [jobId |-> req.jobId, nodeId |-> req.nodeId])
    /\ UNCHANGED <<nodes, logs, job_scripts>>

\* A faulty finish_job_commit: add_task is called twice.
finish_job_commit_two_tasks(req) ==
    /\ jobs' = IF Exists(req.jobId)
               THEN [jobs EXCEPT ![req.jobId].status = "finished",
                                 ![req.jobId].finished_at = now,
                                 ![req.jobId].result =
                                     <<[modelHash |-> req.modelHash,
                                        meta |-> req.metadata]>>]
               ELSE jobs
    /\ provenance' = Append(provenance, ProvRecord(req))
    /\ bgTasks' = bgTasks \o <<[jobId |-> req.jobId, nodeId |-> req.nodeId],
                              [jobId |-> req.jobId, nodeId |-> req.nodeId]>>
    /\ UNCHANGED <<nodes, logs, job_scripts>>

\* A faulty finish_job_commit: a row that is finished keeps its result, and
\* the provenance record is written all the same.
finish_job_commit_keep_result(req) ==
    /\ jobs' = IF Exists(req.jobId) /\ jobs[req.jobId].status # "finished"
               THEN [jobs EXCEPT ![req.jobId].status = "finished",
                                 ![req.jobId].finished_at = now,
                                 ![req.jobId].result =
                                     <<[modelHash |-> req.modelHash,
                                        meta |-> req.metadata]>>]
               ELSE jobs
    /\ provenance' = Append(provenance, ProvRecord(req))
    /\ bgTasks' = Append(bgTasks, [jobId |-> req.jobId, nodeId |-> req.nodeId])
    /\ UNCHANGED <<nodes, logs, job_scripts>>

\* finish_job, second half: UPDATE jobs, INSERT provenance, commit, add_task.
finish_job_commit(req) ==
    /\ jobs' = IF Exists(req.jobId)
               THEN [jobs EXCEPT ![req.jobId].status = "finished",
                                 ![req.jobId].finished_at = now,
                                 ![req.jobId].result =
                                     <<[modelHash |-> req.modelHash,
                                        meta |-> req.metadata]>>]
               ELSE jobs
    /\ provenance' = Append(provenance, ProvRecord(req))
    /\ bgTasks' = Append(bgTasks, [jobId |-> req.jobId, nodeId |-> req.nodeId])
    /\ UNCHANGED <<nodes, logs, job_scripts>>

\* A faulty stream_log: lines of jobs that have no row are dropped.
stream_log_known_job(job_id, line) ==
    /\ logs' = IF Exists(job_id)
               THEN Append(logs, [job_id |-> job_id, line |-> line])
               ELSE logs
    /\ UNCHANGED <<nodes, jobs, provenance, job_scripts, bgTasks>>

\* A log row's place in the sequence stands for its id and its ts.
stream_log(job_id, line) ==
    /\ logs' = Append(logs, [job_id |-> job_id, line |-> line])
    /\ UNCHANGED <<nodes, jobs, provenance, job_scripts, bgTasks>>

\* A faulty usage_report: the sample also counts as a heartbeat.
usage_report_touch(nodeId, jobId) ==
    /\ logs' = Append(logs, [job_id |-> jobId, line |-> "usage"])
    /\ nodes' = [n \in DOMAIN nodes |-> IF n = nodeId THEN now ELSE nodes[n]]
    /\ UNCHANGED <<jobs, provenance, job_scripts, bgTasks>>

usage_report(nodeId, jobId) ==
    /\ logs' = Append(logs, [job_id |-> jobId, line |-> "usage"])
    /\ UNCHANGED <<nodes, jobs, provenance, job_scripts, bgTasks>>

upload_script(jobId, code) ==
    /\ job_scripts' = job_scripts \cup {jobId}
    /\ code = 200
    /\ UNCHANGED <<nodes, jobs, provenance, logs, bgTasks>>

\* out is the "script" of the response, or NULL for the 404.
fetch_script(jobId, out) ==
    /\ out = IF ~Exists(jobId) THEN NULL
             ELSE IF jobId \in job_scripts THEN "renter" ELSE ""
    /\ UNCHANGED store

\* A faulty restart_job: assigned_node is not reset.
restart_job_keep_node(jobId, code) ==
    /\ IF Exists(jobId)
       THEN /\ jobs' = [jobs EXCEPT ![jobId].status = "pending",
                                    ![jobId].started_at = NoTs,
                                    ![jobId].finished_at = NoTs,
                                    ![jobId].result = NoResult]
            /\ code = 200
       ELSE jobs' = jobs /\ code = 404
    /\ UNCHANGED <<nodes, provenance, logs, job_scripts, bgTasks>>

\* A faulty restart_job: ... WHERE job_id = ? AND status = 'finished'.
restart_job_finished_only(jobId, code) ==
    /\ IF Exists(jobId) /\ jobs[jobId].status = "finished"
       THEN /\ jobs' = [jobs EXCEPT ![jobId].status = "pending",
                                    ![jobId].assigned_node = NULL,
                                    ![jobId].started_at = NoTs,
                                    ![jobId].finished_at = NoTs,
                                    ![jobId].result = NoResult]
            /\ code = 200
       ELSE jobs' = jobs /\ code = 404
    /\ UNCHANGED <<nodes, provenance, logs, job_scripts, bgTasks>>

\* A faulty restart_job: finished_at is not reset.
restart_job_keep_finished(jobId, code) ==
    /\ IF Exists(jobId)
       THEN /\ jobs' = [jobs EXCEPT ![jobId].status = "pending",
                                    ![jobId].assigned_node = NULL,
                                    ![jobId].started_at = NoTs,
                                    ![jobId].result = NoResult]
            /\ code = 200
       ELSE jobs' = jobs /\ code = 404
    /\ UNCHANGED <<nodes, provenance, logs, job_scripts, bgTasks>>

\* A faulty restart_job: the payload's datasetUrl is reset as well.
restart_job_reset_payload(jobId, code) ==
    /\ IF Exists(jobId)
       THEN /\ jobs' = [jobs EXCEPT ![jobId].status = "pending",
                                    ![jobId].payload.datasetUrl = NULL,
                                    ![jobId].assigned_node = NULL,
                                    ![jobId].started_at = NoTs,
                                    ![jobId].finished_at = NoTs,
                                    ![jobId].result = NoResult]
            /\ code = 200
       ELSE jobs' = jobs /\ code = 404
    /\ UNCHANGED <<nodes, provenance, logs, job_scripts, bgTasks>>

restart_job(jobId, code) ==
    /\ IF Exists(jobId)
       THEN /\ jobs' = [jobs EXCEPT ![jobId].status = "pending",
                                    ![jobId].assigned_node = NULL,
                                    ![jobId].started_at = NoTs,
                                    ![jobId].finished_at = NoTs,
                                    ![jobId].result = NoResult]
            /\ code = 200
       ELSE jobs' = jobs /\ code = 404
    /\ UNCHANGED <<nodes, provenance, logs, job_scripts, bgTasks>>

\* The four DELETEs commit together, before the 404 is decided.
delete_job(job_id, code) ==
    /\ logs' = SelectSeq(logs, LAMBDA l : l.job_id # job_id)
    /\ provenance' = SelectSeq(provenance, LAMBDA p : p.jobId # job_id)
    /\ job_scripts' = job_scripts \ {job_id}
    /\ jobs' = [j \in DOMAIN jobs \ {job_id} |-> jobs[j]]
    /\ code = IF Exists(job_id) THEN 200 ELSE 404
    /\ UNCHANGED <<nodes, bgTasks>>

\* What process_post_job_actions meets: whether SHELBY_API_URL and
\* SHELBY_API_KEY are set, whether APTOS_SENDER_ADDRESS and APTOS_PRIVATE_KEY
\* are, whether the POST of write_to_shelby raises, and whether the SELECT of
\* calculate_cost_for_job does (sqlite3.OperationalError).  The payment and
\* the reward are placeholders that only print.
Envs == [shelby : BOOLEAN, aptos : BOOLEAN,
         shelby_fails : BOOLEAN, cost_fails : BOOLEAN]
Unconfigured == [shelby |-> FALSE, aptos |-> FALSE,
                 shelby_fails |-> FALSE, cost_fails |-> FALSE]
NoRun == [shelby |-> "none", cost |-> "none", amount |-> 0,
          payment |-> "none", photon |-> "none"]

\* calculate_cost_for_job, in cents: 0.0 without the row or one of its
\* timestamps, else 5 cents for each minute and for one minute at least.
calculate_cost_for_job(job_id) ==
    IF \/ job_id \notin DOMAIN jobs
       \/ jobs[job_id].started_at = NoTs
       \/ jobs[job_id].finished_at = NoTs
    THEN 0
    ELSE LET minutes == (jobs[job_id].finished_at - jobs[job_id].started_at) \div 60
         IN  5 * (IF minutes > 1 THEN minutes ELSE 1)

\* process_post_job_actions: three try blocks.  1) write_to_shelby when
\* configured; 2) calculate_cost_for_job and, in the same block, the payment
\* when configured: an exception of the cost leaves the block before the
\* payment; 3) trigger_photon_reward.  It reads the job's timestamps and
\* writes nothing to the database.
process_post_job_actions(env) ==
    /\ bgTasks # << >>
    /\ bgTasks' = Tail(bgTasks)
    /\ postjob' =
          [shelby |-> IF ~ env.shelby THEN "skipped"
                      ELSE IF env.shelby_fails THEN "failed" ELSE "ok",
           cost |-> IF env.cost_fails THEN "failed" ELSE "ok",
           amount |-> IF env.cost_fails THEN 0
                      ELSE calculate_cost_for_job(Head(bgTasks).jobId),
           payment |-> IF env.cost_fails THEN "not_reached"
                       ELSE IF env.aptos THEN "ok" ELSE "skipped",
           photon |-> "ok"]
    /\ UNCHANGED <<nodes, jobs, provenance, logs, job_scripts>>

\* A faulty delete_node_select: the active_jobs test is gone.
delete_node_select_no_check(node_id, code) ==
    /\ code = 200
    /\ UNCHANGED store

\* delete_node, first half: SELECT COUNT(*) of the node's active jobs.
delete_node_select(node_id, code) ==
    /\ code = IF \E j \in DOMAIN jobs : /\ jobs[j].assigned_node = node_id
                                       /\ jobs[j].status \in {"assigned", "running"}
              THEN 400 ELSE 200
    /\ UNCHANGED store

\* delete_node, second half: DELETE FROM nodes, commit.
delete_node_commit(node_id, code) ==
    /\ nodes' = [n \in DOMAIN nodes \ {node_id} |-> nodes[n]]
    /\ code = IF node_id \in DOMAIN nodes THEN 200 ELSE 404
    /\ UNCHANGED <<jobs, provenance, logs, job_scripts, bgTasks>>

\* ------------------------------------------------- the agent's pure parts
\* What a container run may leave in output/: [name, size, hash] per file,
\* in the order output_dir.glob("*") lists them.
FileA == [name |-> "a.txt", size |-> 10, hash |-> "hA"]
FileM == [name |-> "model.bin", size |-> 5, hash |-> "hM"]
RunOutputs == {<< >>, <<FileA, FileM>>}
\* proc.returncode of docker run.
ExitCodes == {0, 1}

CanonicalNames == {"model.bin", "pytorch_model.bin", "model.pt", "model.pth"}

\* The file names a run may leave, and p.name.lower() of each.
Names == {"a.txt", "b.bin", "model.bin", "Model.PT"}
Lower == [n \in Names |-> IF n = "Model.PT" THEN "model.pt" ELSE n]
\* st_size and sha256 of a file: any size, one digest for each name.
Sizes == {5, 50}
HashOf == [n \in Names |-> IF n = "a.txt" THEN "hA"
                            ELSE IF n = "b.bin" THEN "hB"
                            ELSE IF n = "model.bin" THEN "hM" ELSE "hP"]
AllFiles == {[name |-> n, size |-> z, hash |-> HashOf[n]] : n \in Names, z \in Sizes}
\* output_dir.glob("*"): up to MaxFiles files of distinct names, in any order.
Listings ==
    UNION {{l \in [1..k -> AllFiles] :
               \A i \in 1..k, m \in 1..k : i # m => l[i].name # l[m].name} :
           k \in 1..MaxFiles}

\* A faulty Preferred: the name is compared as it is spelled.
Preferred_as_spelled(candidates) ==
    {i \in 1..Len(candidates) :
        /\ candidates[i].name \in CanonicalNames
        /\ \A k \in 1..(i - 1) : candidates[k].name \notin CanonicalNames}

\* run_job_container lines 256-260: the first file in listing order whose
\* lower-cased name is canonical; no index when there is none.
Preferred(candidates) ==
    {i \in 1..Len(candidates) :
        /\ Lower[candidates[i].name] \in CanonicalNames
        /\ \A k \in 1..(i - 1) : Lower[candidates[k].name] \notin CanonicalNames}

\* max(candidates, key=size): the first of the largest.
Largest(candidates) ==
    {i \in 1..Len(candidates) :
        /\ \A k \in 1..Len(candidates) : candidates[k].size <= candidates[i].size
        /\ \A k \in 1..(i - 1) : candidates[k].size < candidates[i].size}

\* run_job_container's return value after the container has exited:
\* (None, None, rc) for an empty output/, else the chosen file's hash and size.
run_job_container(candidates, rc) ==
    IF candidates = << >>
    THEN [model_hash |-> NULL, model_size |-> rc]
    ELSE LET i == CHOOSE x \in (IF Preferred(candidates) # {}
                                THEN Preferred(candidates)
                                ELSE Largest(candidates)) : TRUE
         IN  [model_hash |-> candidates[i].hash, model_size |-> candidates[i].size]

\* A faulty finish_job_report: the null-model report whatever the run left.
finish_job_report_no_model(a) ==
    [nodeId |-> a, jobId |-> job[a].jobId, modelHash |-> "",
     modelSizeBytes |-> 0, metadata |-> MetaNoModel]

\* handle_job lines 343-350 with finish_job_report's payload: a hexdigest is
\* never empty, so "if model_hash" is "is not None"; "model_size or 0" is
\* model_size itself.
finish_job_report(a) ==
    IF model_hash[a] # NULL
    THEN [nodeId |-> a, jobId |-> job[a].jobId, modelHash |-> model_hash[a],
          modelSizeBytes |-> model_size[a], metadata |-> MetaDataset]
    ELSE [nodeId |-> a, jobId |-> job[a].jobId, modelHash |-> "",
          modelSizeBytes |-> IF model_size[a] # 0 THEN model_size[a] ELSE 0,
          metadata |-> MetaNoModel]

\* ------------------------------------------------------------------ Init
EmptyTable == [x \in {} |-> NULL]
NoReply == [op |-> NULL, code |-> 0, body |-> NULL]

\* Everything but the clock and the nodes table, as init_db and the start
\* of the agents leave it.
InitRest ==
    /\ jobs = EmptyTable
    /\ provenance = << >>
    /\ logs = << >>
    /\ job_scripts = {}
    /\ bgTasks = << >>
    /\ inflight = NoReq
    /\ deleting = NULL
    /\ reply = NoReply
    /\ pc = [a \in Agents |-> "register"]
    /\ job = [a \in Agents |-> NoJob]
    /\ ack_res = [a \in Agents |-> "unset"]
    /\ train_py = [a \in Agents |-> [j \in JobIds |-> j = "test-script-job"]]
    /\ image_tag = [a \in Agents |-> "unset"]
    /\ model_hash = [a \in Agents |-> NULL]
    /\ model_size = [a \in Agents |-> 0]
    /\ sent = [a \in Agents |-> NoReq]
    /\ usage_threads = {}
    /\ postjob = NoRun

Init ==
    /\ now = 1
    /\ nodes = EmptyTable
    /\ InitRest

\* time.time() moves on.
Tick ==
    /\ now < MaxTime
    /\ now' = now + 1
    /\ UNCHANGED <<store, client, agent, postjob>>

\* time.time() moves on by a liveness window.
Elapse(d) ==
    /\ now + d <= MaxClock
    /\ now' = now + d
    /\ UNCHANGED <<store, client, agent, postjob>>

\* ------------------------------------------- requests of frontend/clients
\* Any HTTP client may call any endpoint with any ids: nothing authenticates.
Codes == {200, 400, 404, 500}
Reply(op, code) == [op |-> op, code |-> code, body |-> NULL]

\* The finish reports a client sends: an empty one and one with a model.
ClientReports ==
    {[modelHash |-> "", modelSizeBytes |-> 0, metadata |-> MetaNoModel],
     [modelHash |-> "h1", modelSizeBytes |-> 5, metadata |-> MetaDataset]}

ClientCreate(jobId, datasetUrl) ==
    /\ \E code \in Codes :
          /\ create_job(jobId, datasetUrl, code)
          /\ reply' = Reply("create", code)
    /\ UNCHANGED <<now, postjob, inflight, deleting, agent>>

ClientUploadScript(jobId) ==
    /\ \E code \in Codes :
          /\ upload_script(jobId, code)
          /\ reply' = Reply("upload-script", code)
    /\ UNCHANGED <<now, postjob, inflight, deleting, agent>>

ClientPoll(nodeId) ==
    /\ \E out \in JobDicts :
          /\ poll_for_job(nodeId, out)
          /\ reply' = [op |-> "poll", code |-> 200, body |-> out.jobId]
    /\ UNCHANGED <<now, postjob, inflight, deleting, agent>>

ClientAck(nodeId, jobId) ==
    /\ \E code \in Codes :
          /\ ack_job(nodeId, jobId, code)
          /\ reply' = Reply("ack", code)
    /\ UNCHANGED <<now, postjob, inflight, deleting, agent>>

\* POST /api/jobs/ack with the signature field the caller chose.
ClientAckSigned(nodeId, jobId, signature) ==
    /\ \E code \in Codes :
          /\ ack_job_signed(nodeId, jobId, signature, code)
          /\ reply' = Reply("ack", code)
    /\ UNCHANGED <<now, postjob, inflight, deleting, agent>>

\* POST /api/jobs/finish up to the SELECT: the 404, or the request goes on.
ClientFinishSelect(nodeId, jobId, report) ==
    /\ inflight = NoReq
    /\ Len(provenance) < MaxProv
    /\ Len(bgTasks) < MaxTasks
    /\ \E code \in Codes :
          /\ finish_job_select(jobId, code)
          /\ IF code = 404
             THEN inflight' = NoReq /\ reply' = Reply("finish", 404)
             ELSE /\ inflight' = [nodeId |-> nodeId, jobId |-> jobId,
                                  modelHash |-> report.modelHash,
                                  modelSizeBytes |-> report.modelSizeBytes,
                                  metadata |-> report.metadata]
                  /\ reply' = reply
    /\ UNCHANGED <<now, postjob, deleting, agent>>

ClientFinishCommit ==
    /\ inflight # NoReq
    /\ finish_job_commit(inflight)
    /\ inflight' = NoReq
    /\ reply' = Reply("finish", 200)
    /\ UNCHANGED <<now, postjob, deleting, agent>>

ClientRestart(jobId) ==
    /\ \E code \in Codes :
          /\ restart_job(jobId, code)
          /\ reply' = Reply("restart", code)
    /\ UNCHANGED <<now, postjob, inflight, deleting, agent>>

ClientDeleteJob(jobId) ==
    /\ \E code \in Codes :
          /\ delete_job(jobId, code)
          /\ reply' = Reply("delete", code)
    /\ UNCHANGED <<now, postjob, inflight, deleting, agent>>

\* GET /api/frontend/nodes: the body is the status of every node.
ClientNodes ==
    /\ \E out \in [DOMAIN nodes -> {"online", "warning", "offline"}] :
          /\ get_nodes_for_frontend(out)
          /\ reply' = [op |-> "nodes", code |-> 200, body |-> out]
    /\ UNCHANGED <<now, postjob, inflight, deleting, agent>>

\* Node and log requests, as the agent's threads or anyone else send them.
ClientRegister(nodeId) ==
    /\ \E code \in Codes :
          /\ register_node(nodeId, code)
          /\ reply' = Reply("register", code)
    /\ UNCHANGED <<now, postjob, inflight, deleting, agent>>

ClientHeartbeat(nodeId) ==
    /\ \E code \in Codes :
          /\ heartbeat(nodeId, code)
          /\ reply' = Reply("heartbeat", code)
    /\ UNCHANGED <<now, postjob, inflight, deleting, agent>>

ClientStreamLog(jobId) ==
    /\ Len(logs) < MaxLogs
    /\ stream_log(jobId, "out")
    /\ reply' = Reply("stream-log", 200)
    /\ UNCHANGED <<now, postjob, inflight, deleting, agent>>

ClientUsageReport(nodeId, jobId) ==
    /\ Len(logs) < MaxLogs
    /\ usage_report(nodeId, jobId)
    /\ reply' = Reply("usage-report", 200)
    /\ UNCHANGED <<now, postjob, inflight, deleting, agent>>

\* DELETE /api/frontend/nodes/{node_id} up to the SELECT COUNT(*): the 400,
\* or the request goes on to its DELETE.
ClientDeleteNodeSelect(nodeId) ==
    /\ deleting = NULL
    /\ \E code \in Codes :
          /\ delete_node_select(nodeId, code)
          /\ IF code = 400
             THEN deleting' = NULL /\ reply' = Reply("delete-node", 400)
             ELSE deleting' = nodeId /\ reply' = reply
    /\ UNCHANGED <<now, postjob, inflight, agent>>

ClientDeleteNodeCommit ==
    /\ deleting # NULL
    /\ \E code \in Codes :
          /\ delete_node_commit(deleting, code)
          /\ reply' = Reply("delete-node", code)
    /\ deleting' = NULL
    /\ UNCHANGED <<now, postjob, inflight, agent>>

\* The background task in a deployment with no credentials set and the
\* database at hand.
PostJobActions ==
    /\ process_post_job_actions(Unconfigured)
    /\ UNCHANGED <<now, client, agent>>

\* The background task in any deployment.
PostJobActionsIn(env) ==
    /\ process_post_job_actions(env)
    /\ UNCHANGED <<now, client, agent>>

\* ------------------------------------------------------------ the agent
\* requests.get/post under backend_get/backend_post: the request reaches the
\* handler and the response comes back, or the request is lost, or the
\* handler runs and the response is lost (timeout).  Any failure is None.
Net == {"ok", "req_lost", "resp_lost"}

\* __main__: register_node; the process goes on only when it succeeded
\* (SystemExit(1) otherwise, and that agent never runs).
AgentRegister(a) ==
    /\ pc[a] = "register"
    /\ \E code \in Codes : register_node(a, code)
    /\ pc' = [pc EXCEPT ![a] = "poll"]
    /\ UNCHANGED <<now, postjob, client, job, ack_res, train_py, image_tag, model_hash,
                   model_size, sent, usage_threads>>

\* start_heartbeat: the daemon thread, every HEARTBEAT_INTERVAL.
AgentHeartbeat(a) ==
    /\ pc[a] # "register"
    /\ \E code \in Codes : heartbeat(a, code)
    /\ UNCHANGED <<now, postjob, client, agent>>

\* A faulty AgentPoll: the loop polls from its own thread, whatever
\* handle_job is doing.
AgentPoll_unblocked(a) ==
    /\ pc[a] # "register"
    /\ \E net \in Net, out \in JobDicts :
          /\ poll_for_job(a, out)
          /\ IF net = "ok" /\ out # NoJob
             THEN /\ job' = [job EXCEPT ![a] = out]
                  /\ pc' = [pc EXCEPT ![a] = "ack"]
             ELSE /\ job' = job
                  /\ pc' = [pc EXCEPT ![a] = "sleep"]
    /\ UNCHANGED <<now, postjob, client, ack_res, train_py, image_tag, model_hash,
                   model_size, sent, usage_threads>>

\* poll_for_job_loop: one GET /api/jobs/poll.
AgentPoll(a) ==
    /\ pc[a] = "poll"
    /\ \E net \in Net, out \in JobDicts :
          /\ poll_for_job(a, out)
          /\ IF net = "ok" /\ out # NoJob
             THEN /\ job' = [job EXCEPT ![a] = out]
                  /\ pc' = [pc EXCEPT ![a] = "ack"]
             ELSE /\ job' = job
                  /\ pc' = [pc EXCEPT ![a] = "sleep"]
    /\ UNCHANGED <<now, postjob, client, ack_res, train_py, image_tag, model_hash,
                   model_size, sent, usage_threads>>

\* A faulty AgentAck: a failed ack is sent again, and the job is processed
\* once the handler has been reached.
AgentAck_retry(a) ==
    /\ pc[a] = "ack"
    /\ \E net \in Net :
          IF net = "req_lost"
          THEN /\ UNCHANGED store
               /\ ack_res' = [ack_res EXCEPT ![a] = "neterr"]
               /\ pc' = [pc EXCEPT ![a] = "ack"]
          ELSE \E code \in Codes :
               /\ ack_job(a, job[a].jobId, code)
               /\ ack_res' = [ack_res EXCEPT ![a] =
                                 IF net = "resp_lost" THEN "neterr"
                                 ELSE IF code = 200 THEN "ok" ELSE "http400"]
               /\ pc' = [pc EXCEPT ![a] = "fetch"]
    /\ UNCHANGED <<now, postjob, client, job, train_py, image_tag, model_hash,
                   model_size, sent, usage_threads>>

\* handle_job lines 289-294.  ack_res is None both for the 400 and for a
\* failed request; the model keeps the two apart as "http400" and "neterr".
AgentAck(a) ==
    /\ pc[a] = "ack"
    /\ \E net \in Net :
          IF net = "req_lost"
          THEN /\ UNCHANGED store
               /\ ack_res' = [ack_res EXCEPT ![a] = "neterr"]
               /\ pc' = [pc EXCEPT ![a] = "sleep"]
          ELSE \E code \in Codes :
               /\ ack_job(a, job[a].jobId, code)
               /\ ack_res' = [ack_res EXCEPT ![a] =
                                 IF net = "resp_lost" THEN "neterr"
                                 ELSE IF code = 200 THEN "ok" ELSE "http400"]
               /\ pc' = [pc EXCEPT ![a] =
                            IF net = "ok" /\ code = 200 THEN "fetch" ELSE "sleep"]
    /\ UNCHANGED <<now, postjob, client, job, train_py, image_tag, model_hash,
                   model_size, sent, usage_threads>>

\* handle_job lines 296-330: fetch_script_for_job, then the renter's script,
\* the fallback script, the local train.py, or "aborting".
AgentFetchScript(a) ==
    /\ pc[a] = "fetch"
    /\ \E net \in Net, out \in {NULL, "", "renter"} :
          /\ fetch_script(job[a].jobId, out)
          /\ LET script == IF net = "ok" /\ out # NULL THEN out ELSE ""
                 j == job[a].jobId
             IN  IF script # ""
                 THEN /\ train_py' = [train_py EXCEPT ![a][j] = TRUE]
                      /\ pc' = [pc EXCEPT ![a] = "build"]
                 ELSE IF job[a].datasetUrl # NULL /\ ~train_py[a][j]
                 THEN /\ train_py' = [train_py EXCEPT ![a][j] = TRUE]
                      /\ pc' = [pc EXCEPT ![a] = "build"]
                 ELSE IF train_py[a][j]
                 THEN /\ train_py' = train_py
                      /\ pc' = [pc EXCEPT ![a] = "build"]
                 ELSE /\ train_py' = train_py
                      /\ pc' = [pc EXCEPT ![a] = "sleep"]
    /\ UNCHANGED <<now, postjob, client, job, ack_res, image_tag, model_hash,
                   model_size, sent, usage_threads>>

\* build_image: the tag, or None when docker build fails.
build_image(a, tag) ==
    /\ image_tag' = [image_tag EXCEPT ![a] = tag]
    /\ pc' = [pc EXCEPT ![a] = IF tag # NULL THEN "run" ELSE "sleep"]

\* handle_job lines 332-337.
AgentBuild(a) ==
    /\ pc[a] = "build"
    /\ \E tag \in {NULL, "tag"} : build_image(a, tag)
    /\ UNCHANGED <<now, postjob, store, client, job, ack_res, train_py, model_hash,
                   model_size, sent, usage_threads>>

\* run_job_container lines 216-231: Popen, and the usage thread starts.
AgentRunStart(a) ==
    /\ pc[a] = "run"
    /\ usage_threads' = usage_threads \cup
           {[nodeId |-> a, jobId |-> job[a].jobId, at |-> "check", stop |-> FALSE]}
    /\ pc' = [pc EXCEPT ![a] = "stream"]
    /\ UNCHANGED <<now, postjob, store, client, job, ack_res, train_py, image_tag,
                   model_hash, model_size, sent>>

\* run_job_container lines 234-240: one line of the container's output.
AgentStreamLog(a) ==
    /\ pc[a] = "stream"
    /\ Len(logs) < MaxLogs
    /\ stream_log(job[a].jobId, "out")
    /\ UNCHANGED <<now, postjob, client, agent>>

\* run_job_container lines 243-264: the container exits with rc, the stop
\* event is set, join(timeout=2) returns whether or not the thread has
\* ended, and the artifact is chosen from what output/ holds.
AgentRunExitOn(a, candidates, rc) ==
    /\ pc[a] = "stream"
    /\ LET r == run_job_container(candidates, rc)
       IN  /\ model_hash' = [model_hash EXCEPT ![a] = r.model_hash]
           /\ model_size' = [model_size EXCEPT ![a] = r.model_size]
    /\ usage_threads' = {IF t.nodeId = a THEN [t EXCEPT !.stop = TRUE] ELSE t :
                            t \in usage_threads}
    /\ pc' = [pc EXCEPT ![a] = "finish"]
    /\ UNCHANGED <<now, postjob, store, client, job, ack_res, train_py, image_tag, sent>>

\* The runs of the agent's own specifications: an empty output/, or a.txt
\* and model.bin.
AgentRunExit(a) ==
    \E rc \in ExitCodes, candidates \in RunOutputs :
       AgentRunExitOn(a, candidates, rc)

\* monitor_usage_while: "while not stop_event.is_set()".
UsageCheck(t) ==
    /\ t \in usage_threads
    /\ t.at = "check"
    /\ usage_threads' = (usage_threads \ {t}) \cup
           (IF t.stop THEN {} ELSE {[t EXCEPT !.at = "post"]})
    /\ UNCHANGED <<now, postjob, store, client, pc, job, ack_res, train_py, image_tag,
                   model_hash, model_size, sent>>

\* monitor_usage_while: cpu_percent, POST /api/usage-report, sleep(4).
UsagePost(t) ==
    /\ t \in usage_threads
    /\ t.at = "post"
    /\ IF Len(logs) < MaxLogs
       THEN usage_report(t.nodeId, t.jobId)
       ELSE UNCHANGED store
    /\ usage_threads' = (usage_threads \ {t}) \cup {[t EXCEPT !.at = "check"]}
    /\ UNCHANGED <<now, postjob, client, pc, job, ack_res, train_py, image_tag,
                   model_hash, model_size, sent>>

\* A faulty AgentFinish: a finish report that failed is posted again.
AgentFinish_retry(a) ==
    /\ pc[a] = "finish"
    /\ Len(provenance) < MaxProv
    /\ Len(bgTasks) < MaxTasks
    /\ sent' = [sent EXCEPT ![a] = finish_job_report(a)]
    /\ \E net \in Net, code \in Codes :
          /\ finish_job_select(job[a].jobId, code)
          /\ pc' = [pc EXCEPT ![a] =
                       IF net # "req_lost" /\ code = 200 THEN "finish_wait"
                       ELSE "finish"]
    /\ UNCHANGED <<now, postjob, client, job, ack_res, train_py, image_tag, model_hash,
                   model_size, usage_threads>>

\* handle_job lines 343-350 and finish_job_report: POST /api/jobs/finish,
\* up to the handler's SELECT.
AgentFinish(a) ==
    /\ pc[a] = "finish"
    /\ Len(provenance) < MaxProv
    /\ Len(bgTasks) < MaxTasks
    /\ sent' = [sent EXCEPT ![a] = finish_job_report(a)]
    /\ \E net \in Net, code \in Codes :
          /\ finish_job_select(job[a].jobId, code)
          /\ pc' = [pc EXCEPT ![a] =
                       IF net # "req_lost" /\ code = 200 THEN "finish_wait"
                       ELSE "sleep"]
    /\ UNCHANGED <<now, postjob, client, job, ack_res, train_py, image_tag, model_hash,
                   model_size, usage_threads>>

\* The handler's writes; the agent only prints what comes back.
AgentFinishCommit(a) ==
    /\ pc[a] = "finish_wait"
    /\ finish_job_commit(sent[a])
    /\ pc' = [pc EXCEPT ![a] = "sleep"]
    /\ UNCHANGED <<now, postjob, client, job, ack_res, train_py, image_tag, model_hash,
                   model_size, sent, usage_threads>>

\* poll_for_job_loop: time.sleep(POLL_INTERVAL); handle_job's locals are gone.
AgentSleep(a) ==
    /\ pc[a] = "sleep"
    /\ pc' = [pc EXCEPT ![a] = "poll"]
    /\ job' = [job EXCEPT ![a] = NoJob]
    /\ ack_res' = [ack_res EXCEPT ![a] = "unset"]
    /\ image_tag' = [image_tag EXCEPT ![a] = "unset"]
    /\ model_hash' = [model_hash EXCEPT ![a] = NULL]
    /\ model_size' = [model_size EXCEPT ![a] = 0]
    /\ sent' = [sent EXCEPT ![a] = NoReq]
    /\ UNCHANGED <<now, postjob, store, client, train_py, usage_threads>>

\* One agent's main thread at work: renters create jobs and upload scripts;
\* the agent registers, polls, claims, runs and reports.  The heartbeat and
\* usage threads are started and never scheduled here: they write only the
\* nodes and logs tables.
TheAgent == "n1"
Next ==
    \/ Tick
    \/ \E j \in JobIds, u \in DatasetUrls : ClientCreate(j, u)
    \/ \E j \in JobIds : ClientUploadScript(j)
    \/ AgentRegister(TheAgent)
    \/ AgentPoll(TheAgent)
    \/ AgentAck(TheAgent)
    \/ AgentFetchScript(TheAgent)
    \/ AgentBuild(TheAgent)
    \/ AgentRunStart(TheAgent)
    \/ AgentStreamLog(TheAgent)
    \/ AgentRunExit(TheAgent)
    \/ AgentFinish(TheAgent)
    \/ AgentFinishCommit(TheAgent)
    \/ AgentSleep(TheAgent)
    \/ PostJobActions

Spec == Init /\ [][Next]_vars

\* The job store under arbitrary clients.
StoreJobs == {"j2"}
NextStore ==
    \/ Tick
    \/ \E j \in StoreJobs : ClientCreate(j, "url")
    \/ \E n \in NodeIds, j \in StoreJobs : ClientAck(n, j)
    \/ \E n \in NodeIds, j \in StoreJobs, r \in ClientReports : ClientFinishSelect(n, j, r)
    \/ ClientFinishCommit
    \/ \E j \in StoreJobs : ClientRestart(j)
    \/ \E j \in StoreJobs : ClientDeleteJob(j)
    \/ PostJobActions

SpecStore == Init /\ [][NextStore]_vars

\* The provenance and logs tables under arbitrary clients of one job.
NextProv ==
    \/ Tick
    \/ \E j \in StoreJobs : ClientCreate(j, "url")
    \/ \E n \in NodeIds, j \in StoreJobs : ClientAck(n, j)
    \/ \E n \in NodeIds, j \in StoreJobs, r \in ClientReports :
          ClientFinishSelect(n, j, r)
    \/ ClientFinishCommit
    \/ \E j \in StoreJobs : ClientRestart(j)
    \/ \E j \in StoreJobs : ClientStreamLog(j)
    \/ \E n \in NodeIds, j \in StoreJobs : ClientUsageReport(n, j)
    \/ \E j \in StoreJobs : ClientDeleteJob(j)
    \/ PostJobActions

SpecProv == Init /\ [][NextProv]_vars

PollNode == "n1"
PollReport == [modelHash |-> "h1", modelSizeBytes |-> 5, metadata |-> MetaDataset]

\* The nodes table under arbitrary clients: registration, heartbeats and
\* removal of two nodes, around one job that either node claims and that
\* one of them polls for, logs to and finishes.
NextNodes ==
    \/ Tick
    \/ \E n \in NodeIds : ClientRegister(n)
    \/ \E n \in NodeIds : ClientHeartbeat(n)
    \/ \E n \in NodeIds : ClientDeleteNodeSelect(n)
    \/ ClientDeleteNodeCommit
    \/ \E j \in StoreJobs : ClientCreate(j, "url")
    \/ ClientPoll(PollNode)
    \/ \E n \in NodeIds, j \in StoreJobs : ClientAck(n, j)
    \/ \E j \in StoreJobs : ClientFinishSelect(PollNode, j, PollReport)
    \/ ClientFinishCommit
    \/ \E j \in StoreJobs : ClientStreamLog(j)
    \/ \E j \in StoreJobs : ClientUsageReport(PollNode, j)

SpecNodes == Init /\ [][NextNodes]_vars

\* The node list at any time of day: both nodes registered at the start
\* of the clock, seen again or not, and listed 0 to MaxClock - 1 seconds
\* later.
InitStatus ==
    /\ now \in 1..MaxClock
    /\ nodes \in [NodeIds -> 1..MaxTime]
    /\ \A n \in NodeIds : nodes[n] <= now
    /\ InitRest

NextStatus ==
    \/ ClientNodes
    \/ \E n \in NodeIds : ClientHeartbeat(n)

SpecStatus == InitStatus /\ [][NextStatus]_vars

\* One job with or without a datasetUrl and every request one node and the
\* renter can send about it.
NextPayload ==
    \/ Tick
    \/ \E j \in StoreJobs, u \in DatasetUrls : ClientCreate(j, u)
    \/ \E j \in StoreJobs : ClientUploadScript(j)
    \/ \E j \in StoreJobs : ClientAck(PollNode, j)
    \/ \E j \in StoreJobs : ClientFinishSelect(PollNode, j, PollReport)
    \/ ClientFinishCommit
    \/ \E j \in StoreJobs : ClientRestart(j)
    \/ \E j \in StoreJobs : ClientStreamLog(j)
    \/ \E j \in StoreJobs : ClientUsageReport(PollNode, j)
    \/ \E j \in StoreJobs : ClientDeleteJob(j)
    \/ PostJobActions

SpecPayload == Init /\ [][NextPayload]_vars

\* One job claimed by either node under any signature, finished and
\* restarted.
NextSigned ==
    \/ Tick
    \/ \E j \in StoreJobs : ClientCreate(j, "url")
    \/ \E n \in NodeIds, j \in StoreJobs, sig \in Signatures :
          ClientAckSigned(n, j, sig)
    \/ \E j \in StoreJobs : ClientFinishSelect(PollNode, j, PollReport)
    \/ ClientFinishCommit
    \/ \E j \in StoreJobs : ClientRestart(j)
    \/ PostJobActions

SpecSigned == Init /\ [][NextSigned]_vars

\* One agent with its usage threads scheduled: two jobs wait for it, and
\* each run starts a thread that ends when it next looks at its stop event.
NextLoop ==
    \/ \E j \in JobIds : ClientCreate(j, "url")
    \/ AgentRegister(TheAgent)
    \/ AgentPoll(TheAgent)
    \/ AgentAck(TheAgent)
    \/ AgentFetchScript(TheAgent)
    \/ AgentBuild(TheAgent)
    \/ AgentRunStart(TheAgent)
    \/ AgentStreamLog(TheAgent)
    \/ AgentRunExit(TheAgent)
    \/ \E t \in usage_threads : UsageCheck(t)
    \/ \E t \in usage_threads : UsagePost(t)
    \/ AgentFinish(TheAgent)
    \/ AgentFinishCommit(TheAgent)
    \/ AgentSleep(TheAgent)
    \/ PostJobActions

SpecLoop == Init /\ [][NextLoop]_vars

\* The completion pipeline in every deployment: one job claimed, finished,
\* restarted and deleted while its background task waits or runs.
NextPipeline ==
    \/ Tick
    \/ \E j \in StoreJobs : ClientCreate(j, "url")
    \/ \E j \in StoreJobs : ClientAck(PollNode, j)
    \/ \E j \in StoreJobs : ClientFinishSelect(PollNode, j, PollReport)
    \/ ClientFinishCommit
    \/ \E j \in StoreJobs : ClientRestart(j)
    \/ \E j \in StoreJobs : ClientDeleteJob(j)
    \/ \E env \in Envs : PostJobActionsIn(env)

SpecPipeline == Init /\ [][NextPipeline]_vars

\* One agent whose runs leave any listing of output/.
NextArtifact ==
    \/ \E j \in StoreJobs : ClientCreate(j, "url")
    \/ AgentRegister(TheAgent)
    \/ AgentPoll(TheAgent)
    \/ AgentAck(TheAgent)
    \/ AgentFetchScript(TheAgent)
    \/ AgentBuild(TheAgent)
    \/ AgentRunStart(TheAgent)
    \/ \E rc \in ExitCodes, candidates \in Listings :
          AgentRunExitOn(TheAgent, candidates, rc)
    \/ AgentFinish(TheAgent)
    \/ AgentFinishCommit(TheAgent)
    \/ AgentSleep(TheAgent)
    \/ PostJobActions

SpecArtifact == Init /\ [][NextArtifact]_vars

\* A node that registers, heartbeats or falls silent while warning windows
\* pass, and every operation on its job.
NextLiveness ==
    \/ Elapse(WarningWindow)
    \/ ClientRegister(PollNode)
    \/ ClientHeartbeat(PollNode)
    \/ ClientNodes
    \/ ClientDeleteNodeSelect(PollNode)
    \/ ClientDeleteNodeCommit
    \/ \E j \in StoreJobs : ClientCreate(j, "url")
    \/ \E n \in NodeIds : ClientPoll(n)
    \/ \E j \in StoreJobs : ClientAck(PollNode, j)
    \/ \E j \in StoreJobs : ClientFinishSelect(PollNode, j, PollReport)
    \/ ClientFinishCommit
    \/ \E j \in StoreJobs : ClientRestart(j)
    \/ \E j \in StoreJobs : ClientDeleteJob(j)
    \/ PostJobActions

SpecLiveness == Init /\ [][NextLiveness]_vars

\* Polling: two jobs created at equal or different times, polled by every
\* node, claimed, finished and restarted by one client node.
NextPoll ==
    \/ Tick
    \/ \E j \in JobIds \cup {NULL} : ClientCreate(j, "url")
    \/ \E n \in NodeIds : ClientPoll(n)
    \/ \E j \in JobIds : ClientAck(PollNode, j)
    \/ \E j \in JobIds : ClientFinishSelect(PollNode, j, PollReport)
    \/ ClientFinishCommit
    \/ \E j \in JobIds : ClientRestart(j)
    \/ PostJobActions

SpecPoll == Init /\ [][NextPoll]_vars

\* The race for one job: the main threads of two agents, no administrator.
RaceJob == "j2"
NextRace ==
    \/ Tick
    \/ \E u \in DatasetUrls : ClientCreate(RaceJob, u)
    \/ \E a \in Agents : AgentRegister(a)
    \/ \E a \in Agents : AgentPoll(a)
    \/ \E a \in Agents : AgentAck(a)
    \/ \E a \in Agents : AgentFetchScript(a)
    \/ \E a \in Agents : AgentBuild(a)
    \/ \E a \in Agents : AgentRunStart(a)
    \/ \E a \in Agents : AgentStreamLog(a)
    \/ \E a \in Agents : AgentRunExit(a)
    \/ \E a \in Agents : AgentFinish(a)
    \/ \E a \in Agents : AgentFinishCommit(a)
    \/ \E a \in Agents : AgentSleep(a)
    \/ PostJobActions

SpecRace == Init /\ [][NextRace]_vars

\* Two agents and one job that an administrator may restart at any time.
NextRestartRace ==
    \/ ClientCreate(RaceJob, "url")
    \/ ClientRestart(RaceJob)
    \/ \E a \in Agents : AgentRegister(a)
    \/ \E a \in Agents : AgentPoll(a)
    \/ \E a \in Agents : AgentAck(a)
    \/ \E a \in Agents : AgentFetchScript(a)
    \/ \E a \in Agents : AgentBuild(a)
    \/ \E a \in Agents : AgentRunStart(a)
    \/ \E a \in Agents : AgentRunExit(a)
    \/ \E a \in Agents : AgentFinish(a)
    \/ \E a \in Agents : AgentFinishCommit(a)
    \/ \E a \in Agents : AgentSleep(a)

SpecRestartRace == Init /\ [][NextRestartRace]_vars

\* Finish calls in flight together: the agent's report for the job it ran
\* and a client's for the same job, each between its SELECT and its writes,
\* with restart and deletion in between.
NextFinishRace ==
    \/ ClientCreate(RaceJob, "url")
    \/ \E r \in ClientReports : ClientFinishSelect("n2", RaceJob, r)
    \/ ClientFinishCommit
    \/ ClientRestart(RaceJob)
    \/ ClientDeleteJob(RaceJob)
    \/ AgentRegister(TheAgent)
    \/ AgentPoll(TheAgent)
    \/ AgentAck(TheAgent)
    \/ AgentFetchScript(TheAgent)
    \/ AgentBuild(TheAgent)
    \/ AgentRunStart(TheAgent)
    \/ AgentRunExit(TheAgent)
    \/ AgentFinish(TheAgent)
    \/ AgentFinishCommit(TheAgent)
    \/ AgentSleep(TheAgent)
    \/ PostJobActions

SpecFinishRace == Init /\ [][NextFinishRace]_vars


\* ------------------------------------------------------------ properties
\* C1: among the agents that ack the same pending job exactly one is
\* answered ok and becomes the job's assigned node; every other agent that
\* got an answer for that job got the 400, the job being another's.
C1_ExactlyOneAckSucceeds ==
    \A a \in Agents :
       LET j == job[a].jobId
       IN  /\ ack_res[a] = "ok" =>
                 /\ Exists(j)
                 /\ jobs[j].assigned_node = a
                 /\ jobs[j].status \in {"assigned", "finished"}
           /\ ack_res[a] = "http400" =>
                 /\ Exists(j)
                 /\ jobs[j].status # "pending"
                 /\ jobs[j].assigned_node \notin {NULL, a}
           /\ Cardinality({b \in Agents : job[b].jobId = j /\ ack_res[b] = "ok"}) <= 1

\* Two agents polled the same job; one holds the ok, the other the 400.
C1_Witness ==
    \E a, b \in Agents :
       /\ a # b
       /\ job[a].jobId = RaceJob /\ job[b].jobId = RaceJob
       /\ ack_res[a] = "ok" /\ ack_res[b] = "http400"
       /\ jobs[RaceJob].assigned_node = a

\* C2: an ack on a job that is assigned, finished or absent is answered 400
\* and writes nothing: every table, and so the job's status, assigned_node
\* and started_at, is as before, and no job row appears.
C2_AckNotPendingRejected ==
    [][\A n \in NodeIds, j \in JobIds :
          (ClientAck(n, j) /\ ~(j \in DOMAIN jobs /\ jobs[j].status = "pending"))
             => /\ reply' = [op |-> "ack", code |-> 400, body |-> NULL]
                /\ jobs' = jobs
                /\ store' = store]_vars

\* A 400 for an ack while the job is already another node's.
C2_Witness ==
    /\ reply.op = "ack" /\ reply.code = 400
    /\ \E j \in DOMAIN jobs :
          /\ jobs[j].status \in {"assigned", "finished"}
          /\ jobs[j].assigned_node # NULL
          /\ jobs[j].started_at # NoTs

\* C3: every change of a job's status is pending to assigned, assigned to
\* finished, or finished/assigned to pending.
C3_StatusTransitions ==
    [][\A j \in JobIds :
          (j \in DOMAIN jobs /\ j \in DOMAIN jobs' /\ jobs'[j].status # jobs[j].status)
             => \/ jobs[j].status = "pending" /\ jobs'[j].status = "assigned"
                \/ jobs[j].status = "assigned" /\ jobs'[j].status = "finished"
                \/ jobs[j].status \in {"finished", "assigned"}
                      /\ jobs'[j].status = "pending"]_vars

\* C4: an agent back from handle_job with a successful ack and a failed
\* build has posted a finish report with empty hash, size 0 and the error
\* marker.
C4_BuildFailureReported ==
    \A a \in Agents :
       (pc[a] = "sleep" /\ ack_res[a] = "ok" /\ image_tag[a] = NULL)
          => /\ sent[a] # NoReq
             /\ sent[a].jobId = job[a].jobId
             /\ sent[a].modelHash = ""
             /\ sent[a].modelSizeBytes = 0
             /\ sent[a].metadata = MetaNoModel

\* C5: an agent whose container ran and left output/ empty has posted a
\* finish report with empty hash, size 0 and the error annotation.
C5_EmptyOutputReported ==
    \A a \in Agents :
       (pc[a] \in {"finish_wait", "sleep"} /\ image_tag[a] = "tag"
           /\ model_hash[a] = NULL)
          => /\ sent[a] # NoReq
             /\ sent[a].jobId = job[a].jobId
             /\ sent[a].modelHash = ""
             /\ sent[a].modelSizeBytes = 0
             /\ sent[a].metadata = MetaNoModel

\* C6: an agent back from handle_job with a successful ack has gone on to
\* the image build: no acknowledged job is given up for lack of a script.
C6_NeverAbandonedForScript ==
    \A a \in Agents :
       (pc[a] = "sleep" /\ ack_res[a] = "ok") => image_tag[a] # "unset"

\* C7: a job's started_at is set if and only if its status is assigned or
\* finished.
C7_StartedIffAssigned ==
    \A j \in DOMAIN jobs :
       (jobs[j].started_at # NoTs) <=> (jobs[j].status \in {"assigned", "finished"})

\* C8: finish on a job id that has no row is answered 404 and writes
\* nothing: no table changes (no job row, no provenance row, no pipeline
\* task) and no request goes on to the handler's writes.
C8_FinishUnknownJob ==
    [][\A n \in NodeIds, j \in JobIds, r \in ClientReports :
          (ClientFinishSelect(n, j, r) /\ j \notin DOMAIN jobs)
             => /\ reply' = [op |-> "finish", code |-> 404, body |-> NULL]
                /\ inflight' = NoReq
                /\ jobs' = jobs
                /\ provenance' = provenance
                /\ bgTasks' = bgTasks
                /\ store' = store]_vars

\* The 404 for a finish, and no job row, provenance row or pipeline task.
C8_Witness ==
    /\ reply.op = "finish" /\ reply.code = 404
    /\ jobs = EmptyTable
    /\ provenance = << >>
    /\ bgTasks = << >>
    /\ inflight = NoReq

\* C9: a finish request is accepted for an existing job whatever its status
\* and whatever node id it carries; when its writes run on a job that is
\* still there the answer is 200, the status is finished and result is the
\* caller's modelHash and metadata, replacing what was stored.
C9_FinishUnconditional ==
    [][/\ \A n \in NodeIds, j \in JobIds, r \in ClientReports :
             (ClientFinishSelect(n, j, r) /\ j \in DOMAIN jobs)
                => /\ inflight'.jobId = j /\ inflight'.nodeId = n
                   /\ inflight'.modelHash = r.modelHash
                   /\ inflight'.metadata = r.metadata
       /\ (ClientFinishCommit /\ inflight.jobId \in DOMAIN jobs)
             => /\ reply' = [op |-> "finish", code |-> 200, body |-> NULL]
                /\ jobs'[inflight.jobId].status = "finished"
                /\ jobs'[inflight.jobId].result =
                      <<[modelHash |-> inflight.modelHash,
                         meta |-> inflight.metadata]>>]_vars

\* Two finish calls on one job, the later by a node that is not the job's
\* assigned node and with another hash: result is that of the later call.
C9_Witness ==
    /\ Len(provenance) = 2
    /\ provenance[1].jobId = provenance[2].jobId
    /\ provenance[1].modelHash # provenance[2].modelHash
    /\ reply.op = "finish" /\ reply.code = 200
    /\ \E j \in DOMAIN jobs :
          /\ j = provenance[2].jobId
          /\ jobs[j].status = "finished"
          /\ jobs[j].assigned_node \notin {NULL, provenance[2].nodeId}
          /\ jobs[j].result = <<[modelHash |-> provenance[2].modelHash,
                                 meta |-> provenance[2].metadata]>>

\* C10: poll answers with a pending job whose created_at is the smallest
\* among the pending jobs, and with no job exactly when none is pending;
\* the job it names is never assigned or finished.
C10_PollOldestPending ==
    [][ClientPoll(PollNode)
          => /\ reply'.op = "poll"
             /\ (reply'.body = NULL) <=>
                   (\A k \in DOMAIN jobs : jobs[k].status # "pending")
             /\ reply'.body # NULL =>
                   /\ reply'.body \in DOMAIN jobs
                   /\ jobs[reply'.body].status = "pending"
                   /\ jobs[reply'.body].status \notin {"assigned", "finished"}
                   /\ \A k \in DOMAIN jobs :
                         jobs[k].status = "pending" =>
                            jobs[reply'.body].created_at <= jobs[k].created_at]_vars

\* poll named the older of two pending jobs.
C10_Witness ==
    /\ reply.op = "poll" /\ reply.body # NULL
    /\ reply.body \in DOMAIN jobs
    /\ jobs[reply.body].status = "pending"
    /\ \E k \in DOMAIN jobs :
          /\ jobs[k].status = "pending"
          /\ jobs[k].created_at > jobs[reply.body].created_at

\* C11: a poll writes no table, and its answer is the same whichever node
\* polls: in the state it ran in, every poll by every node names the same
\* job, and that state is the one the next poller finds.
C11_PollReadOnly ==
    [][\A n \in NodeIds :
          ClientPoll(n)
             => /\ jobs' = jobs
                /\ nodes' = nodes
                /\ logs' = logs
                /\ provenance' = provenance
                /\ store' = store
                /\ \A m \in NodeIds, out \in JobDicts :
                      poll_for_job(m, out) => out.jobId = reply'.body]_vars

\* A poll was answered while two pending jobs had the same created_at; the
\* job it named is still pending and unassigned.
C11_Witness ==
    /\ reply.op = "poll" /\ reply.body \in DOMAIN jobs
    /\ jobs[reply.body].status = "pending"
    /\ jobs[reply.body].assigned_node = NULL
    /\ \E k \in DOMAIN jobs :
          /\ k # reply.body
          /\ jobs[k].status = "pending"
          /\ jobs[k].created_at = jobs[reply.body].created_at
          /\ jobs[k].rowid > jobs[reply.body].rowid

\* C12: a step that changes the assigned_node of a job either writes a node
\* id into the NULL of a pending job, the job becoming assigned and the ack
\* answered ok, or resets it to NULL together with the status, the restart
\* answered ok; it never replaces one node id by another.
C12_AssignedNodeOncePerCycle ==
    [][\A j \in JobIds :
          (j \in DOMAIN jobs /\ j \in DOMAIN jobs'
              /\ jobs'[j].assigned_node # jobs[j].assigned_node)
             => \/ /\ jobs[j].assigned_node = NULL
                   /\ jobs[j].status = "pending"
                   /\ jobs'[j].assigned_node \in NodeIds
                   /\ jobs'[j].status = "assigned"
                   /\ reply' = [op |-> "ack", code |-> 200, body |-> NULL]
                \/ /\ jobs[j].assigned_node \in NodeIds
                   /\ jobs'[j].assigned_node = NULL
                   /\ jobs'[j].status = "pending"
                   /\ reply' = [op |-> "restart", code |-> 200, body |-> NULL]]_vars

\* A job claimed by one node and then finished by a report that carries the
\* other node's id: the assigned node is still the one that claimed it.
C12_Witness ==
    \E j \in DOMAIN jobs :
       /\ jobs[j].status = "finished"
       /\ jobs[j].assigned_node \in NodeIds
       /\ Len(provenance) >= 1
       /\ provenance[Len(provenance)].jobId = j
       /\ provenance[Len(provenance)].nodeId \in NodeIds \ {jobs[j].assigned_node}

\* C13: when the finish report of an agent that polled, acked and ran a job
\* and found an artifact of digest H is written by the backend, the job is
\* finished, its result carries H, its assigned node is that agent, and a
\* provenance record names the job, the agent and H.
C13_RunReported ==
    [][\A a \in Agents :
          (AgentFinishCommit(a) /\ ack_res[a] = "ok" /\ model_hash[a] # NULL)
             => /\ job[a].jobId \in DOMAIN jobs'
                /\ jobs'[job[a].jobId].status = "finished"
                /\ Len(jobs'[job[a].jobId].result) = 1
                /\ jobs'[job[a].jobId].result[1].modelHash = model_hash[a]
                /\ jobs'[job[a].jobId].assigned_node = a
                /\ \E i \in 1..Len(provenance') :
                      /\ provenance'[i].jobId = job[a].jobId
                      /\ provenance'[i].nodeId = a
                      /\ provenance'[i].modelHash = model_hash[a]]_vars

\* An agent is back from a run that left model.bin, and the job it claimed
\* is finished with that file's digest.
C13_Witness ==
    \E a \in Agents :
       /\ pc[a] = "sleep" /\ ack_res[a] = "ok"
       /\ model_hash[a] = FileM.hash
       /\ job[a].jobId \in DOMAIN jobs
       /\ jobs[job[a].jobId].status = "finished"
       /\ jobs[job[a].jobId].assigned_node = a
       /\ jobs[job[a].jobId].result = <<[modelHash |-> FileM.hash, meta |-> MetaDataset]>>
       /\ provenance # << >>
       /\ provenance[1].nodeId = a

\* C14: a restart of an existing job, whatever its status, is answered ok
\* and leaves the job pending with assigned_node, started_at, finished_at
\* and result NULL and everything else as it was; a restart of an unknown
\* job id is answered 404 and writes nothing; an ack on a pending job,
\* restarted or not, is answered ok and assigns it.
C14_RestartResets ==
    [][\A j \in JobIds :
          /\ (ClientRestart(j) /\ j \in DOMAIN jobs)
                => /\ reply' = [op |-> "restart", code |-> 200, body |-> NULL]
                   /\ DOMAIN jobs' = DOMAIN jobs
                   /\ jobs'[j].status = "pending"
                   /\ jobs'[j].assigned_node = NULL
                   /\ jobs'[j].started_at = NoTs
                   /\ jobs'[j].finished_at = NoTs
                   /\ jobs'[j].result = NoResult
                   /\ jobs'[j].created_at = jobs[j].created_at
                   /\ jobs'[j].payload = jobs[j].payload
                   /\ \A k \in DOMAIN jobs \ {j} : jobs'[k] = jobs[k]
                   /\ provenance' = provenance
          /\ (ClientRestart(j) /\ j \notin DOMAIN jobs)
                => /\ reply' = [op |-> "restart", code |-> 404, body |-> NULL]
                   /\ store' = store
          /\ (ClientAck(PollNode, j) /\ j \in DOMAIN jobs /\ jobs[j].status = "pending")
                => /\ reply' = [op |-> "ack", code |-> 200, body |-> NULL]
                   /\ jobs'[j].status = "assigned"
                   /\ jobs'[j].assigned_node = PollNode]_vars

\* A job that was finished (its provenance record is there) is assigned
\* again: it was restarted, and the ack that followed was answered ok.
C14_Witness ==
    /\ reply = [op |-> "ack", code |-> 200, body |-> NULL]
    /\ \E j \in DOMAIN jobs :
          /\ jobs[j].status = "assigned"
          /\ jobs[j].finished_at = NoTs
          /\ jobs[j].result = NoResult
          /\ \E i \in 1..Len(provenance) : provenance[i].jobId = j

\* C15: the writes of a finish request add exactly one provenance record,
\* that of the request, after the records already there; a finish answered
\* 404 adds none; an ack, a restart, a stream-log and a usage-report leave
\* the provenance table as it is; and the table changes in no step other
\* than the writes of a finish and the deletion of a job.
C15_ProvenancePerFinish ==
    [][/\ ClientFinishCommit
             => /\ reply' = [op |-> "finish", code |-> 200, body |-> NULL]
                /\ Len(provenance') = Len(provenance) + 1
                /\ SubSeq(provenance', 1, Len(provenance)) = provenance
                /\ provenance'[Len(provenance')] =
                      [jobId |-> inflight.jobId, nodeId |-> inflight.nodeId,
                       modelHash |-> inflight.modelHash,
                       modelSizeBytes |-> inflight.modelSizeBytes,
                       metadata |-> inflight.metadata]
       /\ \A n \in NodeIds, j \in JobIds :
             /\ (\E r \in ClientReports : ClientFinishSelect(n, j, r))
                   => provenance' = provenance
             /\ (ClientAck(n, j) \/ ClientRestart(j) \/ ClientStreamLog(j)
                    \/ ClientUsageReport(n, j))
                   => provenance' = provenance
       /\ provenance' # provenance
             => (ClientFinishCommit \/ \E j \in JobIds : ClientDeleteJob(j))]_vars

\* Two finish requests were written for a job, which was then restarted and
\* logged to: both records are there.
C15_Witness ==
    /\ Len(provenance) = 2
    /\ provenance[1].jobId = provenance[2].jobId
    /\ logs # << >>
    /\ provenance[1].jobId \in DOMAIN jobs
    /\ jobs[provenance[1].jobId].status = "pending"
    /\ reply.op \in {"stream-log", "usage-report"}

\* C16: a job whose finished_at is set has a result.
C16_FinishedHasResult ==
    \A j \in DOMAIN jobs :
       jobs[j].finished_at # NoTs
          => /\ jobs[j].result # NoResult
             /\ Len(jobs[j].result) = 1
             /\ jobs[j].result[1].modelHash \in {"", "h1"}

\* A job with finished_at set whose result is the empty, error-marked one.
C16_Witness ==
    \E j \in DOMAIN jobs :
       /\ jobs[j].finished_at # NoTs
       /\ jobs[j].result = <<[modelHash |-> "", meta |-> MetaNoModel]>>

\* C17: the timestamps of a job that are set are ordered: created_at is at
\* most started_at and finished_at, and started_at is at most finished_at.
C17_TimestampsOrdered ==
    \A j \in DOMAIN jobs :
       /\ jobs[j].created_at # NoTs
       /\ jobs[j].started_at # NoTs => jobs[j].created_at <= jobs[j].started_at
       /\ jobs[j].finished_at # NoTs => jobs[j].created_at <= jobs[j].finished_at
       /\ (jobs[j].started_at # NoTs /\ jobs[j].finished_at # NoTs)
             => jobs[j].started_at <= jobs[j].finished_at

\* A job created, claimed and finished, the finish later than the creation.
C17_Witness ==
    \E j \in DOMAIN jobs :
       /\ jobs[j].started_at # NoTs
       /\ jobs[j].finished_at # NoTs
       /\ jobs[j].created_at < jobs[j].finished_at

\* C18: a removal of a node that some job is assigned to (status assigned)
\* is answered 400, goes no further and leaves the nodes table as it is;
\* a removal that finds no such job goes on to its DELETE, which removes
\* the node's row and only that row and is answered ok, or is answered 404
\* when the node has no row.
C18_RemoveNode ==
    [][/\ \A n \in NodeIds :
             ClientDeleteNodeSelect(n)
                => IF \E j \in DOMAIN jobs : /\ jobs[j].status = "assigned"
                                             /\ jobs[j].assigned_node = n
                   THEN /\ reply' = [op |-> "delete-node", code |-> 400, body |-> NULL]
                        /\ deleting' = NULL
                        /\ nodes' = nodes
                        /\ store' = store
                   ELSE /\ deleting' = n
                        /\ store' = store
       /\ ClientDeleteNodeCommit
             => /\ DOMAIN nodes' = DOMAIN nodes \ {deleting}
                /\ \A m \in DOMAIN nodes' : nodes'[m] = nodes[m]
                /\ jobs' = jobs
                /\ reply' = [op |-> "delete-node",
                             code |-> IF deleting \in DOMAIN nodes THEN 200 ELSE 404,
                             body |-> NULL]]_vars

\* The removal of a registered node was answered 400 while the job is
\* assigned to it; the node is still registered.
C18_Witness ==
    /\ reply = [op |-> "delete-node", code |-> 400, body |-> NULL]
    /\ \E n \in DOMAIN nodes, j \in DOMAIN jobs :
          /\ jobs[j].status = "assigned"
          /\ jobs[j].assigned_node = n
          /\ \A m \in NodeIds \ {n} : m \notin DOMAIN nodes

\* C19: a heartbeat for a registered node sets its last_seen to now and is
\* answered ok; a heartbeat for a node id that has no row creates none and
\* is answered 404.
C19_HeartbeatKnownNode ==
    [][\A n \in NodeIds :
          ClientHeartbeat(n)
             => IF n \in DOMAIN nodes
                THEN /\ nodes' = [nodes EXCEPT ![n] = now]
                     /\ reply' = [op |-> "heartbeat", code |-> 200, body |-> NULL]
                ELSE /\ nodes' = nodes
                     /\ reply' = [op |-> "heartbeat", code |-> 404, body |-> NULL]]_vars

\* C20: no step lowers the last_seen of a node, a last_seen is never later
\* than the clock (so a row written after a removal is not older than the
\* row removed), only a register or a heartbeat of the node changes it,
\* and poll, ack, finish, stream-log and usage-report requests leave the
\* nodes table as it is.
C20_LastSeenMonotone ==
    [][/\ \A n \in NodeIds :
             /\ n \in DOMAIN nodes' => nodes'[n] <= now'
             /\ (n \in DOMAIN nodes /\ n \in DOMAIN nodes')
                   => /\ nodes[n] <= nodes'[n]
                      /\ nodes'[n] # nodes[n]
                            => (ClientRegister(n) \/ ClientHeartbeat(n))
       /\ \A n \in NodeIds, j \in JobIds :
             (\/ ClientPoll(n)
              \/ ClientAck(n, j)
              \/ ClientFinishSelect(n, j, PollReport)
              \/ ClientFinishCommit
              \/ ClientStreamLog(j)
              \/ ClientUsageReport(n, j)) => nodes' = nodes]_vars

\* A node claimed the job and sent a usage sample for it after its last
\* heartbeat: its last_seen is still the earlier time.
C20_Witness ==
    /\ reply.op = "usage-report"
    /\ PollNode \in DOMAIN nodes
    /\ nodes[PollNode] < now
    /\ \E j \in DOMAIN jobs :
          /\ jobs[j].assigned_node = PollNode
          /\ jobs[j].started_at > nodes[PollNode]
    /\ logs # << >>

\* C21: the node list gives every node exactly one status: online exactly
\* when now - last_seen < 30, warning exactly when it is at least 30 and
\* less than 300, offline exactly when it is at least 300.
C21_NodeStatus ==
    [][ClientNodes
          => /\ DOMAIN reply'.body = DOMAIN nodes
             /\ \A n \in DOMAIN nodes :
                   /\ reply'.body[n] \in {"online", "warning", "offline"}
                   /\ reply'.body[n] = "online" <=> now - nodes[n] < 30
                   /\ reply'.body[n] = "warning" <=>
                         (30 <= now - nodes[n] /\ now - nodes[n] < 300)
                   /\ reply'.body[n] = "offline" <=> now - nodes[n] >= 300
                   /\ now - nodes[n] = 10 => reply'.body[n] = "online"
                   /\ now - nodes[n] = 120 => reply'.body[n] = "warning"
                   /\ now - nodes[n] = 600 => reply'.body[n] = "offline"]_vars

\* The list at a boundary: a node seen 30 seconds ago is warning, next to
\* one seen 29 seconds ago, which is online.
C21_Witness ==
    /\ reply.op = "nodes"
    /\ \E n, m \in DOMAIN nodes :
          /\ now - nodes[n] = 30 /\ reply.body[n] = "warning"
          /\ now - nodes[m] = 29 /\ reply.body[m] = "online"

C23_PollTieByJobId ==
    [][(ClientPoll(PollNode) /\ reply'.body \in DOMAIN jobs)
          => \A k \in DOMAIN jobs :
                (jobs[k].status = "pending"
                    /\ jobs[k].created_at = jobs[reply'.body].created_at)
                   => JobIdRank[reply'.body] <= JobIdRank[k]]_vars

\* C24: a create with the id of an existing job fails and leaves the jobs
\* table as it is; every other create, with a new id or with none, is
\* answered ok and adds one job under an id no job had (the one supplied,
\* if any), pending, created now, with assigned_node, started_at,
\* finished_at and result NULL, and leaves every existing job as it is.
C24_CreateNeverAlters ==
    [][\A j \in JobIds \cup {NULL} :
          ClientCreate(j, "url")
             => IF j \in DOMAIN jobs
                THEN /\ reply'.op = "create" /\ reply'.code \notin {200}
                     /\ jobs' = jobs
                ELSE /\ reply'.op = "create" /\ reply'.code = 200
                     /\ \A k \in DOMAIN jobs : k \in DOMAIN jobs' /\ jobs'[k] = jobs[k]
                     /\ \E id \in JobIds \ DOMAIN jobs :
                           /\ j # NULL => id = j
                           /\ DOMAIN jobs' = DOMAIN jobs \cup {id}
                           /\ jobs'[id].status = "pending"
                           /\ jobs'[id].created_at = now
                           /\ jobs'[id].assigned_node = NULL
                           /\ jobs'[id].started_at = NoTs
                           /\ jobs'[id].finished_at = NoTs
                           /\ jobs'[id].result = NoResult]_vars

\* A create with the id of a finished job failed; the job still has its
\* result.
C24_Witness ==
    /\ reply.op = "create" /\ reply.code = 500
    /\ \E j \in DOMAIN jobs :
          /\ jobs[j].status = "finished"
          /\ jobs[j].result # NoResult
          /\ jobs[j].finished_at > jobs[j].created_at

\* C25: the payload of a job is the same after every step the job is there
\* before and after; an ack, a finish, a restart, an upload-script, a
\* stream-log and a usage-report in particular leave it as it is.
C25_PayloadImmutable ==
    [][/\ \A j \in JobIds :
             (j \in DOMAIN jobs /\ j \in DOMAIN jobs')
                => jobs'[j].payload = jobs[j].payload
       /\ \A j \in StoreJobs :
             (\/ ClientAck(PollNode, j)
              \/ ClientFinishSelect(PollNode, j, PollReport)
              \/ ClientFinishCommit
              \/ ClientRestart(j)
              \/ ClientUploadScript(j)
              \/ ClientStreamLog(j)
              \/ ClientUsageReport(PollNode, j))
                => /\ DOMAIN jobs' = DOMAIN jobs
                   /\ \A k \in DOMAIN jobs : jobs'[k].payload = jobs[k].payload]_vars

\* A job with a datasetUrl that was given a script, logged to, finished and
\* restarted: its payload is the one it was created with.
C25_Witness ==
    \E j \in DOMAIN jobs :
       /\ jobs[j].payload = [jobId |-> j, datasetUrl |-> "url"]
       /\ jobs[j].status = "pending"
       /\ j \in job_scripts
       /\ logs # << >>
       /\ provenance # << >>
       /\ reply.op = "restart" /\ reply.code = 200

\* C26: the answer and the writes of an ack are those that its job id, its
\* node id and the job's status decide; the step an ack takes under one
\* signature is the step it takes under every other signature.
C26_AckIgnoresSignature ==
    [][\A n \in NodeIds, j \in StoreJobs, sig \in Signatures :
          ClientAckSigned(n, j, sig)
             => /\ \A other \in Signatures : ClientAckSigned(n, j, other)
                /\ IF j \in DOMAIN jobs /\ jobs[j].status = "pending"
                   THEN /\ reply' = [op |-> "ack", code |-> 200, body |-> NULL]
                        /\ jobs' = [jobs EXCEPT ![j].status = "assigned",
                                                ![j].assigned_node = n,
                                                ![j].started_at = now]
                   ELSE /\ reply' = [op |-> "ack", code |-> 400, body |-> NULL]
                        /\ jobs' = jobs]_vars

\* An ack was answered ok and the job is the acking node's.
C26_Witness ==
    /\ reply = [op |-> "ack", code |-> 200, body |-> NULL]
    /\ \E j \in DOMAIN jobs :
          /\ jobs[j].status = "assigned"
          /\ jobs[j].assigned_node = "n2"
          /\ jobs[j].started_at = now

\* C27: an agent whose ack failed, by a 400 or by no usable response, is at
\* the sleep of its poll loop; nothing it does for that job follows: no
\* second ack, no script fetch, build, run, log line, usage thread or finish;
\* its one next step ends the cycle and takes it back to polling with the
\* job forgotten.
C27_FailedAckAbandonsCycle ==
    /\ [](\A a \in Agents :
            ack_res[a] \in {"http400", "neterr"}
               => /\ pc[a] = "sleep"
                  /\ image_tag[a] = "unset"
                  /\ sent[a] = NoReq)
    /\ [][\A a \in Agents :
            ack_res[a] \in {"http400", "neterr"}
               => /\ ~ AgentAck(a)
                  /\ ~ AgentFetchScript(a)
                  /\ ~ AgentBuild(a)
                  /\ ~ AgentRunStart(a)
                  /\ ~ AgentStreamLog(a)
                  /\ ~ AgentRunExit(a)
                  /\ ~ AgentFinish(a)
                  /\ ~ AgentFinishCommit(a)
                  /\ \A t \in usage_threads' \ usage_threads : t.nodeId # a
                  /\ \/ /\ pc'[a] = "poll"
                        /\ job'[a] = NoJob
                        /\ ack_res'[a] = "unset"
                     \/ /\ pc'[a] = pc[a]
                        /\ job'[a] = job[a]
                        /\ ack_res'[a] = ack_res[a]]_vars

\* An agent was answered 400 for a job the other agent had claimed, and is
\* back at polling while the other one processes the job.
C27_Witness ==
    \E a \in Agents, b \in Agents :
       /\ a # b
       /\ pc[b] = "stream"
       /\ job[b].jobId = RaceJob
       /\ jobs[RaceJob].assigned_node = b
       /\ ack_res[a] = "http400"
       /\ job[a].jobId = RaceJob
       /\ pc[a] = "sleep"

\* C28: from an ack answered ok until handle_job returns, the agent's main
\* thread takes no poll step and no ack step: it keeps the one job it
\* claimed, and comes to the poll or the ack only through the sleep that
\* follows the end of the handling.  Every step of the handling is for a job
\* claimed by an ok ack.
C28_NoPollWhileProcessing ==
    /\ [](\A a \in Agents :
            pc[a] \in {"fetch", "build", "run", "stream", "finish", "finish_wait"}
               => ack_res[a] = "ok" /\ job[a] # NoJob)
    /\ [][\A a \in Agents :
            (ack_res[a] = "ok" /\ pc[a] # "sleep")
               => /\ ~ AgentPoll(a)
                  /\ ~ AgentAck(a)
                  /\ pc'[a] \notin {"poll", "ack"}
                  /\ job'[a] = job[a]
                  /\ ack_res'[a] = "ok"]_vars

\* The agent runs one job with its usage thread about to post, while another
\* job waits pending in the store.
C28_Witness ==
    /\ pc[TheAgent] = "stream"
    /\ ack_res[TheAgent] = "ok"
    /\ \E t \in usage_threads : t.jobId = job[TheAgent].jobId /\ t.at = "post"
    /\ \E j \in DOMAIN jobs :
          j # job[TheAgent].jobId /\ jobs[j].status = "pending"

\* C29: a usage thread posts a sample only while its agent is in the run of
\* the thread's job or has not yet sent that job's finish report, and an
\* agent never has two usage threads alive.
C29_SamplerEndsWithRun ==
    /\ [](\A a \in Agents :
            Cardinality({t \in usage_threads : t.nodeId = a}) <= 1)
    /\ [][\A t \in usage_threads :
            UsagePost(t)
               => /\ pc[t.nodeId] \in {"stream", "finish"}
                  /\ job[t.nodeId].jobId = t.jobId]_vars

\* C30: a run of the completion pipeline leaves the jobs table as it was and
\* attempts every step whatever became of the others: the cost and the
\* reward always, the mirror write and the payment whenever their credentials
\* are configured.
C30_PipelineStepsIndependent ==
    [][\A env \in Envs :
          PostJobActionsIn(env)
             => /\ jobs' = jobs
                /\ postjob'.cost \in {"ok", "failed"}
                /\ postjob'.photon \in {"ok", "failed"}
                /\ env.shelby => postjob'.shelby \in {"ok", "failed"}
                /\ env.aptos => postjob'.payment \in {"ok", "failed"}]_vars

\* C31: a background task is queued only by the step that commits a finish:
\* the step that finishes the job's row, appends the call's provenance record
\* and answers ok queues one task for that job and node, and a finish
\* answered 404 queues none.  The pipeline runs only on a queued task, takes
\* it off the queue, and so runs once for each finish that was committed.
C31_PipelineAfterCommit ==
    [][/\ Len(bgTasks') > Len(bgTasks)
            => /\ inflight # NoReq
               /\ reply' = [op |-> "finish", code |-> 200, body |-> NULL]
               /\ provenance' = Append(provenance,
                                       [jobId |-> inflight.jobId,
                                        nodeId |-> inflight.nodeId,
                                        modelHash |-> inflight.modelHash,
                                        modelSizeBytes |-> inflight.modelSizeBytes,
                                        metadata |-> inflight.metadata])
               /\ inflight.jobId \in DOMAIN jobs
                     => jobs'[inflight.jobId].status = "finished"
               /\ bgTasks' = Append(bgTasks, [jobId |-> inflight.jobId,
                                              nodeId |-> inflight.nodeId])
       /\ ClientFinishCommit => Len(bgTasks') = Len(bgTasks) + 1
       /\ (\E j \in StoreJobs : ClientFinishSelect(PollNode, j, PollReport))
            => bgTasks' = bgTasks /\ postjob' = postjob
       /\ postjob' # postjob
            => /\ bgTasks # << >>
               /\ bgTasks' = Tail(bgTasks)
               /\ jobs' = jobs
               /\ provenance' = provenance]_vars

\* A finish was committed and answered ok, and its task has run: the queue
\* is empty again and the pipeline has left its record.
C31_Witness ==
    /\ reply = [op |-> "finish", code |-> 200, body |-> NULL]
    /\ bgTasks = << >>
    /\ postjob # NoRun
    /\ Len(provenance) = 1
    /\ \E j \in DOMAIN jobs : jobs[j].status = "finished"

C33_OneAssignedJobPerNode ==
    \A j1 \in DOMAIN jobs, j2 \in DOMAIN jobs :
       (/\ jobs[j1].status = "assigned"
        /\ jobs[j2].status = "assigned"
        /\ jobs[j1].assigned_node = jobs[j2].assigned_node)
          => j1 = j2

\* C34: no two agents are at the same time between their ok ack of one job
\* and the end of their handling of it.
C34_OneAgentPerJob ==
    \A a \in Agents, b \in Agents :
       (/\ ack_res[a] = "ok" /\ pc[a] # "sleep"
        /\ ack_res[b] = "ok" /\ pc[b] # "sleep"
        /\ job[a].jobId = job[b].jobId)
          => a = b

\* C35: the assigned_node of every job in status assigned has a row in the
\* nodes table.
C35_AssignedNodeRegistered ==
    \A j \in DOMAIN jobs :
       jobs[j].status = "assigned" => jobs[j].assigned_node \in DOMAIN nodes

\* C36: a job in status assigned stays assigned to the same node over every
\* step but the commit of a finish of that job, its restart and its
\* deletion: not the passing of time, nor a heartbeat or its absence, nor a
\* node listing, registration or removal, nor a poll changes it; and a poll
\* answers with no job or with a pending one.
C36_LivenessLeavesJobs ==
    [][/\ \A j \in DOMAIN jobs :
            jobs[j].status = "assigned"
               => \/ /\ j \in DOMAIN jobs'
                     /\ jobs'[j].status = "assigned"
                     /\ jobs'[j].assigned_node = jobs[j].assigned_node
                  \/ ClientFinishCommit /\ inflight.jobId = j
                  \/ ClientRestart(j)
                  \/ ClientDeleteJob(j)
       /\ \A n \in NodeIds :
            (reply'.op = "poll" /\ ClientPoll(n))
               => \/ reply'.body = NULL
                  \/ /\ reply'.body \in DOMAIN jobs
                     /\ jobs[reply'.body].status = "pending"]_vars

\* The node listing shows a node offline while a job it acked a warning
\* window ago or longer is still assigned to it.
C36_Witness ==
    /\ reply.op = "nodes"
    /\ PollNode \in DOMAIN reply.body
    /\ reply.body[PollNode] = "offline"
    /\ \E j \in DOMAIN jobs :
          /\ jobs[j].status = "assigned"
          /\ jobs[j].assigned_node = PollNode
          /\ now - jobs[j].started_at >= WarningWindow

\* C37: every job in status finished has a provenance record, and the
\* modelHash of its result is the modelHash of the record of that job that
\* was inserted last.
C37_ResultMatchesLastRecord ==
    \A j \in DOMAIN jobs :
       jobs[j].status = "finished"
          => LET recs == {i \in 1..Len(provenance) : provenance[i].jobId = j}
                 last == CHOOSE i \in recs : \A m \in recs : m <= i
             IN  /\ recs # {}
                 /\ Len(jobs[j].result) = 1
                 /\ jobs[j].result[1].modelHash = provenance[last].modelHash

\* Two finish calls of one job were in flight together and both are
\* committed: the agent's report and a client's, with different hashes.
C37_Witness ==
    /\ Len(provenance) = 2
    /\ provenance[1].jobId = RaceJob /\ provenance[2].jobId = RaceJob
    /\ provenance[1].nodeId # provenance[2].nodeId
    /\ provenance[1].modelHash # provenance[2].modelHash
    /\ pc[TheAgent] = "sleep" /\ sent[TheAgent] # NoReq
    /\ reply = [op |-> "finish", code |-> 200, body |-> NULL]
    /\ RaceJob \in DOMAIN jobs /\ jobs[RaceJob].status = "finished"

\* C38: every provenance record is of a job that has a row in jobs.
C38_ProvenanceJobExists ==
    \A i \in 1..Len(provenance) : provenance[i].jobId \in DOMAIN jobs

\* C39: an agent about to post its finish report has posted none since its
\* ack; once it has posted one it posts no other before it is back at
\* polling.  A report that is lost or answered with an error writes nothing:
\* the jobs and provenance tables are as before, so an assigned job stays
\* assigned, and the agent goes to the sleep of its poll loop.
C39_OneFinishNoRetry ==
    /\ [](\A a \in Agents : pc[a] = "finish" => sent[a] = NoReq)
    /\ [][\A a \in Agents :
            /\ AgentFinish(a)
                 => /\ sent'[a] # NoReq
                    /\ pc'[a] \in {"finish_wait", "sleep"}
                    /\ pc'[a] = "sleep"
                          => jobs' = jobs /\ provenance' = provenance
            /\ sent[a] # NoReq
                 => /\ ~ AgentFinish(a)
                    /\ \/ sent'[a] = sent[a] /\ pc'[a] \in {pc[a], "sleep"}
                       \/ /\ pc[a] = "sleep"
                          /\ pc'[a] = "poll"
                          /\ sent'[a] = NoReq]_vars

\* The agent's one finish report failed: it is at the sleep, nothing was
\* recorded, and the job is still assigned to it.
C39_Witness ==
    /\ pc[TheAgent] = "sleep"
    /\ sent[TheAgent] # NoReq
    /\ provenance = << >>
    /\ RaceJob \in DOMAIN jobs
    /\ jobs[RaceJob].status = "assigned"
    /\ jobs[RaceJob].assigned_node = TheAgent
====
